---- MODULE Spec2Model ----
(***************************************************************************)
(* State-machine model of AO3/session.py: GuestSession and Session         *)
(* (transport calls, login, token refresh, the cache slots, and the        *)
(* sequential and threaded aggregation of the paginated subscription and   *)
(* bookmark listings), plus the module-level search function.              *)
(***************************************************************************)
EXTENDS Integers, Sequences, FiniteSets, TLC

(***************************************************************************)
(* Python values.  An optional value (None or a value, an unset or a set   *)
(* attribute) is a sequence of length 0 or 1, so that the two cases can be *)
(* compared whatever the type of the value.                                *)
(***************************************************************************)
NoneVal == <<>>
Some(v) == <<v>>
IsNone(o) == o = <<>>
Val(o) == o[1]

\* Bounds of the model.
MaxPages == 2
MaxItems == 2
MaxLinks == 3

\* Program constants.
RateLimited == 429
Found == 302

\* Inputs: user names, token values carried by pages, response statuses.
Users == {"alice", "bob"}
Tokens == {"tokA", "tokB"}
GetStatuses == {200, RateLimited}
PostStatuses == {200, Found, RateLimited}

(***************************************************************************)
(* URLs.  The fields that do not apply to a URL are "" and 0.              *)
(***************************************************************************)
Url(path, user, page) == [path |-> path, user |-> user, page |-> page]
LandingUrl == Url("landing", "", 0)
LoginUrl == Url("login", "", 0)
ProfileUrl(u) == Url("profile", u, 0)
SearchUrl == Url("search", "", 0)
WorkUrl == Url("work", "", 0)

(***************************************************************************)
(* Markup.  A link (an <a> element) is described by what the code reads of *)
(* it: whether it has a rel attribute and whether that contains "author",  *)
(* the first segment of its href, the trailing segment of its href when it *)
(* is numeric, and its string (None when the element has no single string).*)
(***************************************************************************)
Link(rel, path, seg, string) == [rel |-> rel, path |-> path, seg |-> seg, string |-> string]
WorkLink(n, t) == Link("none", "works", Some(n), Some(t))
AuthorLink(a) == Link("author", "users", NoneVal, Some(a))
UserLink(u) == Link("none", "users", NoneVal, Some(u))
SeriesLink(n, t) == Link("none", "series", Some(n), Some(t))

\* A page body: the value of its authenticity_token input, the entries of
\* its listing container, the items of its pagination control and the
\* number in its bookmark heading, each None when the element is missing.
Body(token, container, pagination, total) ==
    [token |-> token, container |-> container, pagination |-> pagination, total |-> total]
ErrorPage == Body(NoneVal, NoneVal, NoneVal, NoneVal)
TokenPage(t) == Body(Some(t), NoneVal, NoneVal, NoneVal)
TokenBodies == {TokenPage(t) : t \in Tokens} \cup {ErrorPage}

Response(status, body) == [status |-> status, body |-> body]

\* The listing references the code builds (Work, Series and User handles
\* with the display fields set on them).
Ref(kind, id, name, authors) == [kind |-> kind, id |-> id, name |-> name, authors |-> authors]

\* Work.__eq__ / User.__eq__ / Series.__eq__ of the entity modules: two
\* handles are equal when they are of the same kind with the same identity.
RefEq(a, b) ==
    /\ a.kind = b.kind
    /\ IF a.kind = "User" THEN a.name = b.name ELSE a.id = b.id

InList(new, list) == \E k \in 1..Len(list) : RefEq(list[k], new)

\* utils.workid_from_url: the numeric id that follows /works/, else None.
workid_from_url(a) == IF a.path = "works" THEN a.seg ELSE NoneVal

(***************************************************************************)
(* _load_subscriptions, lines 266-297: the loop over the links of one      *)
(* <dt>, then the construction of the reference.  The loop state is the    *)
(* locals type_, user, series, workid, workname, authors; "error" records  *)
(* the exception int() raises on a non-numeric trailing segment.           *)
(***************************************************************************)
SubLocals0 ==
    [type_ |-> "work", user |-> NoneVal, series |-> NoneVal, workid |-> NoneVal,
     workname |-> NoneVal, authors |-> <<>>, error |-> "none"]

SubLinkStep(loc, a) ==
    IF loc.error # "none" THEN loc
    ELSE IF a.rel # "none"
         THEN IF a.rel = "author"
              THEN [loc EXCEPT !.authors = Append(@, a.string)]
              ELSE loc
    ELSE IF a.path = "works"
         THEN [loc EXCEPT !.workname = a.string, !.workid = workid_from_url(a)]
    ELSE IF a.path = "users"
         THEN [loc EXCEPT !.type_ = "user", !.user = Some(a.string)]
    ELSE IF IsNone(a.seg)
         THEN [loc EXCEPT !.type_ = "series", !.workname = a.string, !.error = "ValueError"]
         ELSE [loc EXCEPT !.type_ = "series", !.workname = a.string, !.series = a.seg]

RECURSIVE SubLinks(_, _)
SubLinks(loc, links) ==
    IF links = <<>> THEN loc ELSE SubLinks(SubLinkStep(loc, Head(links)), Tail(links))

\* The reference appended for one <dt> (meaningful when no error was raised).
SubRef(loc) ==
    IF loc.type_ = "work" THEN Ref("Work", loc.workid, loc.workname, loc.authors)
    ELSE IF loc.type_ = "user" THEN Ref("User", NoneVal, Val(loc.user), <<>>)
    ELSE Ref("Series", loc.series, loc.workname, loc.authors)

(***************************************************************************)
(* _load_bookmarks, lines 350-361: the loop over the links of one <li>.    *)
(* workid and workname are locals of the whole method: they are unbound    *)
(* until a work link is seen and keep their value from one <li> to the     *)
(* next.  bound = FALSE is the unbound state.                              *)
(***************************************************************************)
BmLocals0 == [bound |-> FALSE, workid |-> NoneVal, workname |-> NoneVal, authors |-> <<>>]

BmLinkStep(loc, a) ==
    IF a.rel # "none"
    THEN IF a.rel = "author"
         THEN [loc EXCEPT !.authors = Append(@, a.string)]
         ELSE loc
    ELSE IF a.path = "works"
         THEN [loc EXCEPT !.bound = TRUE, !.workname = a.string, !.workid = workid_from_url(a)]
         ELSE loc

RECURSIVE BmLinks(_, _)
BmLinks(loc, links) ==
    IF links = <<>> THEN loc ELSE BmLinks(BmLinkStep(loc, Head(links)), Tail(links))

\* Line 350 resets authors for each <li>; the other locals carry over.
BmEntry(loc, links) == BmLinks([loc EXCEPT !.authors = <<>>], links)

BmRef(loc) == Ref("Work", loc.workid, loc.workname, loc.authors)

(***************************************************************************)
(* _subscription_pages / _bookmark_pages, lines 186-194 and 303-311: the   *)
(* scan of the pagination control.  An item is Some(n) when its text is    *)
(* the digits of n and None otherwise.                                     *)
(***************************************************************************)
RECURSIVE ScanPages(_, _)
ScanPages(n, items) ==
    IF items = <<>> THEN n
    ELSE ScanPages(IF IsNone(Head(items)) THEN n ELSE Val(Head(items)), Tail(items))

PageCount(body) == IF IsNone(body.pagination) THEN 1 ELSE ScanPages(1, Val(body.pagination))

(***************************************************************************)
(* The server.  A listing is a sequence of pages, a page a sequence of     *)
(* entries, an entry the sequence of the links of its <dt> or <li>.        *)
(***************************************************************************)
SubA == <<WorkLink(1, "w1"), AuthorLink("ann")>>
SubB == <<UserLink("bob")>>

BmA == <<WorkLink(1, "w1"), AuthorLink("ann")>>
BmB == <<WorkLink(2, "w2")>>
BmNoLink == <<AuthorLink("ann")>>

\* The subscription listings: page 2 repeats an entry of page 1.
SubPage(p) == IF p % 2 = 1 THEN <<SubB, SubA>> ELSE <<SubA>>
SubListings == {[p \in 1..N |-> SubPage(p)] : N \in 1..MaxPages}

\* The bookmark listings.  In the first family page 2 repeats an entry of
\* page 1 and has an entry without a work link after it; in the second
\* page 2 starts with an entry without a work link.
BmPageX(p) == IF p % 2 = 1 THEN <<BmB, BmA>> ELSE <<BmA, BmNoLink>>
BmPageY(p) == IF p % 2 = 1 THEN <<BmA>> ELSE <<BmNoLink, BmB>>
BmListings ==
    {[p \in 1..N |-> BmPageX(p)] : N \in 1..MaxPages}
    \cup {[p \in 1..N |-> BmPageY(p)] : N \in 1..MaxPages}

\* The pagination control the site renders for a listing of N pages: none
\* for one page, else "Previous", "1", ..., "N", "Next".
Pagination(N) ==
    IF N = 1 THEN NoneVal
    ELSE Some(<<NoneVal>> \o [j \in 1..N |-> Some(j)] \o <<NoneVal>>)

RECURSIVE SumLen(_)
SumLen(l) == IF l = <<>> THEN 0 ELSE Len(Head(l)) + SumLen(Tail(l))

\* Page p of a listing as the site renders it.  Every page carries the
\* pagination control and the bookmark heading with the total.
ListingBody(l, p) == Body(NoneVal, Some(l[p]), Pagination(Len(l)), Some(SumLen(l)))

\* What a fetch of page p may return: the page, or a page without the
\* listing markup (an error page, a changed layout).
ListingBodies(l, p) == IF p \in 1..Len(l) THEN {ListingBody(l, p), ErrorPage} ELSE {ErrorPage}

VARIABLES
    held,                 \* the client holds a constructed session object
    is_authed, username, authenticity_token, session,   \* GuestSession fields
    handles,              \* the requests.Session objects created for the object
    _subscriptions, _bookmarks,                         \* Session list fields
    _subscription_pages, _bookmark_pages, bookmarks,    \* cached_property slots
    subListing, bmListing,                              \* the server's listings
    pc, op, use_threading, n, i,                        \* the calling thread
    outcome, ret, reqs, pre,                            \* the call's record
    prior, first, resolved,                             \* record since clear_cache
    threads                                             \* the page workers

sessVars == <<held, is_authed, username, authenticity_token, session, handles>>
cacheVars == <<_subscriptions, _bookmarks, _subscription_pages, _bookmark_pages, bookmarks>>
serverVars == <<subListing, bmListing>>
loopVars == <<use_threading, n, i>>
histVars == <<prior, first, resolved>>
vars == <<sessVars, cacheVars, serverVars, pc, op, loopVars, outcome, ret, reqs, pre,
          histVars, threads>>

\* The aggregate/cache state of the session.
CacheState ==
    [_subscriptions |-> _subscriptions, _bookmarks |-> _bookmarks,
     _subscription_pages |-> _subscription_pages, _bookmark_pages |-> _bookmark_pages,
     bookmarks |-> bookmarks]

EmptyCache ==
    [_subscriptions |-> NoneVal, _bookmarks |-> NoneVal,
     _subscription_pages |-> NoneVal, _bookmark_pages |-> NoneVal,
     bookmarks |-> NoneVal]

\* What the client has seen since the last clear_cache: the sequence the
\* first normal get_subscriptions / get_bookmarks returned, and whether it
\* has called load_subscriptions_threaded / load_bookmarks_threaded itself
\* after that return.
NoHistory ==
    [subscriptions |-> NoneVal, bookmarks |-> NoneVal,
     sub_reload |-> FALSE, bm_reload |-> FALSE]

NoneResolved == [subscriptions |-> 0, bookmarks |-> 0]

Init ==
    /\ held = FALSE
    /\ is_authed = FALSE /\ username = "" /\ authenticity_token = NoneVal
    /\ session = NoneVal /\ handles = <<>>
    /\ _subscriptions = NoneVal /\ _bookmarks = NoneVal
    /\ _subscription_pages = NoneVal /\ _bookmark_pages = NoneVal /\ bookmarks = NoneVal
    /\ subListing \in SubListings
    /\ bmListing \in BmListings
    /\ pc = "idle" /\ op = "none" /\ use_threading = FALSE /\ n = 0 /\ i = 0
    /\ outcome = "none" /\ ret = NoneVal /\ reqs = <<>> /\ pre = EmptyCache
    /\ prior = NoHistory /\ first = NoHistory /\ resolved = NoneResolved
    /\ threads = <<>>

\* One request of the call's log, with what the site answered: the status
\* and the token field of the body.
Req(method, url, via, r, parsed) ==
    [method |-> method, url |-> url, via |-> via, status |-> r.status,
     token |-> r.body.token, parsed |-> parsed, allow_redirects |-> TRUE,
     payload |-> NoneVal]

\* No page worker is running.
NoLive == \A w \in 1..Len(threads) : threads[w].st \in {"done", "failed"}

\* The client starts a call on its session when it holds one and no worker
\* of an earlier call is still running (section 5: calls on a session are
\* not made concurrently with its paginated fetches).
CanCall == pc = "idle" /\ held /\ NoLive

\* The record a call starts with: the cache state and the sequences
\* returned since the last clear_cache, as they are before the call; the
\* workers of the previous call are gone.
Begin ==
    /\ pre' = CacheState
    /\ prior' = first
    /\ threads' = <<>>

\* The responses a fetch may receive.
Responses(statuses, bodies) == {Response(st, b) : st \in statuses, b \in bodies}

(***************************************************************************)
(* Transport: GuestSession.get, request, post.                             *)
(***************************************************************************)
\* A get that lets a 429 through.
get_raises_never(r) == FALSE

\* Lines 103-104: get raises HTTPError on status 429.
get_raises(r) == r.status = RateLimited

\* Lines 99-102: through requester alone, or with the session's handle.
get_via == IF IsNone(session) THEN "requester" ELSE "session"

\* Lines 117-119: request is get, then the parse of the body.
request_log(url, r) == Req("get", url, get_via, r, ~get_raises(r))

\* Lines 129-130.
post_raises(r) == r.status = RateLimited

get(url, r) ==
    /\ CanCall
    /\ op' = "get"
    /\ reqs' = <<Req("get", url, get_via, r, FALSE)>>
    /\ outcome' = IF get_raises(r) THEN "HTTPError" ELSE "ok"
    /\ ret' = NoneVal
    /\ Begin
    /\ UNCHANGED <<sessVars, cacheVars, serverVars, pc, loopVars, first, resolved>>

request(url, r) ==
    /\ CanCall
    /\ op' = "request"
    /\ reqs' = <<request_log(url, r)>>
    /\ outcome' = IF get_raises(r) THEN "HTTPError" ELSE "ok"
    /\ ret' = NoneVal
    /\ Begin
    /\ UNCHANGED <<sessVars, cacheVars, serverVars, pc, loopVars, first, resolved>>

post(url, r) ==
    /\ CanCall
    /\ op' = "post"
    /\ reqs' = <<Req("post", url, "session", r, FALSE)>>
    /\ outcome' = IF post_raises(r) THEN "HTTPError" ELSE "ok"
    /\ ret' = NoneVal
    /\ Begin
    /\ UNCHANGED <<sessVars, cacheVars, serverVars, pc, loopVars, first, resolved>>

(***************************************************************************)
(* GuestSession.refresh_auth_token, lines 82-94.                           *)
(***************************************************************************)
\* A refresh that always reads the landing page.
refresh_url_landing == LandingUrl

refresh_url == IF is_authed THEN ProfileUrl(username) ELSE LandingUrl

refresh_raises(r) == r.status = RateLimited

\* A refresh that drops the token when the page has none.
refresh_auth_token_dropping(r) ==
    /\ CanCall
    /\ op' = "refresh_auth_token"
    /\ reqs' = <<Req("get", refresh_url, "session", r, ~refresh_raises(r))>>
    /\ IF refresh_raises(r)
       THEN outcome' = "HTTPError" /\ UNCHANGED authenticity_token
       ELSE IF IsNone(r.body.token)
            THEN outcome' = "UnexpectedResponseError" /\ authenticity_token' = NoneVal
            ELSE outcome' = "ok" /\ authenticity_token' = r.body.token
    /\ ret' = NoneVal
    /\ Begin
    /\ UNCHANGED <<held, is_authed, username, session, handles, cacheVars, serverVars,
                   pc, loopVars, first, resolved>>

refresh_auth_token(r) ==
    /\ CanCall
    /\ op' = "refresh_auth_token"
    /\ reqs' = <<Req("get", refresh_url, "session", r, ~refresh_raises(r))>>
    /\ IF refresh_raises(r)
       THEN outcome' = "HTTPError" /\ UNCHANGED authenticity_token
       ELSE IF IsNone(r.body.token)
            THEN outcome' = "UnexpectedResponseError" /\ UNCHANGED authenticity_token
            ELSE outcome' = "ok" /\ authenticity_token' = r.body.token
    /\ ret' = NoneVal
    /\ Begin
    /\ UNCHANGED <<held, is_authed, username, session, handles, cacheVars, serverVars,
                   pc, loopVars, first, resolved>>

(***************************************************************************)
(* The module-level search, lines 487-491 (needs no session).              *)
(***************************************************************************)
search_raises(r) == r.status = RateLimited

search(r) ==
    /\ pc = "idle" /\ NoLive
    /\ op' = "search"
    /\ reqs' = <<Req("get", SearchUrl, "requester", r, ~search_raises(r))>>
    /\ outcome' = IF search_raises(r) THEN "HTTPError" ELSE "ok"
    /\ ret' = NoneVal
    /\ Begin
    /\ UNCHANGED <<sessVars, cacheVars, serverVars, pc, loopVars, first, resolved>>

(***************************************************************************)
(* Construction and disposal.                                              *)
(***************************************************************************)
Construct(o) ==
    /\ op' = o
    /\ ret' = NoneVal
    /\ pre' = EmptyCache
    /\ prior' = NoHistory /\ first' = NoHistory /\ resolved' = NoneResolved
    /\ threads' = <<>>
    /\ _subscriptions' = NoneVal /\ _bookmarks' = NoneVal
    /\ _subscription_pages' = NoneVal /\ _bookmark_pages' = NoneVal /\ bookmarks' = NoneVal
    /\ UNCHANGED <<serverVars, pc, loopVars>>

\* GuestSession.__init__, lines 19-23.
GuestSession ==
    /\ pc = "idle" /\ ~held /\ NoLive
    /\ held' = TRUE
    /\ is_authed' = FALSE
    /\ authenticity_token' = NoneVal
    /\ username' = ""
    /\ handles' = <<"open">>
    /\ session' = Some(1)
    /\ reqs' = <<>>
    /\ outcome' = "ok"
    /\ Construct("GuestSession")

\* The login POST of line 164.
LoginPost(u, token, r) ==
    [method |-> "post", url |-> LoginUrl, via |-> "session", status |-> r.status,
     token |-> r.body.token, parsed |-> FALSE, allow_redirects |-> FALSE,
     payload |-> Some([login |-> u, authenticity_token |-> token])]

\* Line 160: subscripting the result of find; None has no subscript.
login_token_error(r) == IF IsNone(r.body.token) THEN "TypeError" ELSE "none"

\* A login test that also accepts a re-rendered page.
login_failed_lenient(r) == ~(r.status \in {Found, 200})

\* Lines 165-166.
login_failed(r) == ~(r.status = Found)

\* How Session.__init__(username, password), lines 152-172, ends for the
\* responses r1 (login page) and r2 (login POST): the exception or "ok".
LoginOutcome(r1, r2) ==
    IF get_raises(r1) THEN "HTTPError"
    ELSE IF login_token_error(r1) # "none" THEN login_token_error(r1)
    ELSE IF post_raises(r2) THEN "HTTPError"
    ELSE IF login_failed(r2) THEN "LoginError"
    ELSE "ok"

\* The login POST is reached when the page was fetched and the token read.
LoginPosts(r1) == ~get_raises(r1) /\ login_token_error(r1) = "none"

\* Session.__init__.  The password only travels in the payload; the site
\* answers with r2.  When the constructor raises, the client gets no object
\* and the half-built one is finalised (__del__, lines 133-134).
Login(u, r1, r2) ==
    /\ pc = "idle" /\ ~held /\ NoLive
    /\ is_authed' = TRUE
    /\ username' = u
    /\ authenticity_token' = IF LoginPosts(r1) THEN r1.body.token ELSE NoneVal
    /\ session' = Some(2)
    /\ reqs' = <<Req("get", LoginUrl, "session", r1, ~get_raises(r1))>>
               \o (IF LoginPosts(r1) THEN <<LoginPost(u, r1.body.token, r2)>> ELSE <<>>)
    /\ outcome' = LoginOutcome(r1, r2)
    /\ held' = (LoginOutcome(r1, r2) = "ok")
    /\ handles' = IF LoginOutcome(r1, r2) = "ok" THEN <<"open", "open">>
                  ELSE <<"open", "closed">>
    /\ Construct("Session")

\* The client drops its session: __del__, lines 133-134.
Discard ==
    /\ CanCall
    /\ held' = FALSE
    /\ handles' = [handles EXCEPT ![Val(session)] = "closed"]
    /\ op' = "del"
    /\ outcome' = "ok"
    /\ ret' = NoneVal
    /\ reqs' = <<>>
    /\ Begin
    /\ UNCHANGED <<is_authed, username, authenticity_token, session, cacheVars, serverVars,
                   pc, loopVars, first, resolved>>

(***************************************************************************)
(* The cache: clear_cache, lines 174-180.                                  *)
(***************************************************************************)
\* A class on which the bookmarks property is not a cached property.
CachedProperties_partial == {"_subscription_pages", "_bookmark_pages"}

\* The attributes of the class that are cached_property objects.
CachedProperties == {"_subscription_pages", "_bookmark_pages", "bookmarks"}

\* Lines 175-178 for one attribute: deleted when it is a cached property.
Cleared(attr, value) == IF attr \in CachedProperties THEN NoneVal ELSE value

\* Lines 179-180.
ClearedLists == [_bookmarks |-> NoneVal, _subscriptions |-> NoneVal]

clear_cache ==
    /\ CanCall /\ is_authed
    /\ _subscription_pages' = Cleared("_subscription_pages", _subscription_pages)
    /\ _bookmark_pages' = Cleared("_bookmark_pages", _bookmark_pages)
    /\ bookmarks' = Cleared("bookmarks", bookmarks)
    /\ _bookmarks' = ClearedLists._bookmarks
    /\ _subscriptions' = ClearedLists._subscriptions
    /\ op' = "clear_cache"
    /\ outcome' = "ok"
    /\ ret' = NoneVal
    /\ reqs' = <<>>
    /\ pre' = CacheState
    /\ prior' = first
    /\ threads' = <<>>
    /\ first' = NoHistory
    /\ resolved' = NoneResolved
    /\ UNCHANGED <<sessVars, serverVars, pc, loopVars>>

(***************************************************************************)
(* Aggregation of the paginated listings.                                  *)
(***************************************************************************)
\* A listing url that ignores the page index.
SubscriptionsUrl_first(u, p) == Url("subscriptions", u, 1)

SubscriptionsUrl(u, p) == Url("subscriptions", u, p)
BookmarksUrl(u, p) == Url("bookmarks", u, p)

\* A call ends with an exception, or returns.
Raise(e) == pc' = "idle" /\ outcome' = e /\ ret' = NoneVal /\ n' = 0 /\ i' = 0
Return(v) == pc' = "idle" /\ outcome' = "ok" /\ ret' = v /\ n' = 0 /\ i' = 0

Bump(x) == IF x < 2 THEN x + 1 ELSE x

\* An append that skips a reference the list already has.
SubAppend_dedup(list, new) == IF InList(new, list) THEN list ELSE Append(list, new)

\* Lines 290, 292, 297: every reference is appended.
SubAppend(list, new) == Append(list, new)

\* A membership test that never finds the reference.
BmAppends_always(new, list) == TRUE

\* Lines 362-363: a reference equal to one of the list is not appended.
BmAppends(new, list) == ~InList(new, list)

\* _load_subscriptions, lines 265-297, run by one thread on the entries of
\* a page: the list it leaves and the exception that ended it, if any.
RECURSIVE SubPageLoad(_, _)
SubPageLoad(list, entries) ==
    IF entries = <<>> THEN [list |-> list, error |-> "none"]
    ELSE LET loc == SubLinks(SubLocals0, Head(entries))
         IN  IF loc.error # "none" THEN [list |-> list, error |-> loc.error]
             ELSE SubPageLoad(SubAppend(list, SubRef(loc)), Tail(entries))

\* _load_bookmarks, lines 349-363, likewise; Work(workid) with workid
\* unbound raises UnboundLocalError.
RECURSIVE BmPageLoad(_, _, _)
BmPageLoad(list, loc, entries) ==
    IF entries = <<>> THEN [list |-> list, error |-> "none"]
    ELSE LET l2 == BmEntry(loc, Head(entries))
         IN  IF ~l2.bound THEN [list |-> list, error |-> "UnboundLocalError"]
             ELSE BmPageLoad(IF BmAppends(BmRef(l2), list) THEN Append(list, BmRef(l2))
                             ELSE list,
                             l2, Tail(entries))

\* The outcome of a page fetch before any entry is read: lines 263-265 and
\* 347-349 (find_all on a missing container is an AttributeError).
PageError(r) ==
    IF get_raises(r) THEN "HTTPError"
    ELSE IF IsNone(r.body.container) THEN "AttributeError"
    ELSE "none"

\* get_subscriptions, lines 237-241 and 244, with the entry of
\* load_subscriptions_threaded (lines 253-254) when use_threading is set.
get_subscriptions(t) ==
    /\ CanCall /\ is_authed
    /\ op' = "get_subscriptions"
    /\ use_threading' = t
    /\ reqs' = <<>>
    /\ Begin
    /\ IF ~IsNone(_subscriptions)
       THEN /\ Return(_subscriptions)
            /\ first' = IF IsNone(first.subscriptions)
                        THEN [first EXCEPT !.subscriptions = _subscriptions] ELSE first
            /\ UNCHANGED _subscriptions
       ELSE /\ _subscriptions' = Some(<<>>)
            /\ pc' = "sub_count"
            /\ UNCHANGED <<outcome, ret, n, i, first>>
    /\ UNCHANGED <<sessVars, _bookmarks, _subscription_pages, _bookmark_pages, bookmarks,
                   serverVars, resolved>>

\* load_subscriptions_threaded called by the client, lines 253-254.
load_subscriptions_threaded ==
    /\ CanCall /\ is_authed
    /\ op' = "load_subscriptions_threaded"
    /\ use_threading' = TRUE
    /\ reqs' = <<>>
    /\ Begin
    /\ _subscriptions' = Some(<<>>)
    /\ pc' = "sub_count"
    /\ first' = [first EXCEPT !.sub_reload = @ \/ ~IsNone(first.subscriptions)]
    /\ UNCHANGED <<sessVars, _bookmarks, _subscription_pages, _bookmark_pages, bookmarks,
                   serverVars, outcome, ret, n, i, resolved>>

\* A page count that is computed and not stored.
sub_pages_dropped(v) == NoneVal

\* The value cached_property stores for _subscription_pages (line 182).
sub_pages_stored(v) == Some(v)

\* self._subscription_pages in range(...), lines 182-194, 242 and 255.
subscription_pages(r) ==
    /\ pc = "sub_count"
    /\ IF ~IsNone(_subscription_pages)
       THEN /\ n' = Val(_subscription_pages)
            /\ i' = 1
            /\ pc' = IF use_threading THEN "sub_launch" ELSE "sub_pages"
            /\ UNCHANGED <<_subscription_pages, reqs, outcome, ret, resolved>>
       ELSE /\ reqs' = Append(reqs, request_log(SubscriptionsUrl(username, 1), r))
            /\ IF get_raises(r)
               THEN Raise("HTTPError") /\ UNCHANGED <<_subscription_pages, resolved>>
               ELSE /\ n' = PageCount(r.body)
                    /\ _subscription_pages' = sub_pages_stored(PageCount(r.body))
                    /\ resolved' = [resolved EXCEPT !.subscriptions = Bump(@)]
                    /\ i' = 1
                    /\ pc' = IF use_threading THEN "sub_launch" ELSE "sub_pages"
                    /\ UNCHANGED <<outcome, ret>>
    /\ UNCHANGED <<sessVars, _subscriptions, _bookmarks, _bookmark_pages, bookmarks,
                   serverVars, op, use_threading, pre, prior, first, threads>>

\* One iteration of the loop of lines 242-243: _load_subscriptions(page=i).
load_subscriptions_page(r) ==
    /\ pc = "sub_pages" /\ i <= n
    /\ reqs' = Append(reqs, request_log(SubscriptionsUrl(username, i), r))
    /\ IF PageError(r) # "none"
       THEN Raise(PageError(r)) /\ UNCHANGED _subscriptions
       ELSE LET res == SubPageLoad(Val(_subscriptions), Val(r.body.container))
            IN  /\ _subscriptions' = Some(res.list)
                /\ IF res.error # "none"
                   THEN Raise(res.error)
                   ELSE i' = i + 1 /\ UNCHANGED <<pc, outcome, ret, n>>
    /\ UNCHANGED <<sessVars, _bookmarks, _subscription_pages, _bookmark_pages, bookmarks,
                   serverVars, op, use_threading, pre, histVars, threads>>

\* Line 244 after the loop.
get_subscriptions_return ==
    /\ pc = "sub_pages" /\ i > n
    /\ Return(_subscriptions)
    /\ first' = IF IsNone(first.subscriptions)
                THEN [first EXCEPT !.subscriptions = _subscriptions] ELSE first
    /\ UNCHANGED <<sessVars, cacheVars, serverVars, op, use_threading, reqs, pre,
                   prior, resolved, threads>>

(***************************************************************************)
(* Threaded mode.  threadable.threadable (module threadable): a call with  *)
(* threaded=True starts a worker running the method and returns the        *)
(* worker's handle; join on the handle waits for the worker and surfaces   *)
(* its failure.                                                            *)
(***************************************************************************)
Worker(kind, page) ==
    [kind |-> kind, page |-> page, st |-> "fetch", req |-> NoneVal, k |-> 0,
     loc |-> BmLocals0, err |-> "none"]

\* A launch loop that stops one page short.
Launch_short(at, next, kind) ==
    /\ pc = at
    /\ threads' = [p \in 1..(n - 1) |-> Worker(kind, p)]
    /\ pc' = next
    /\ UNCHANGED <<sessVars, cacheVars, serverVars, op, loopVars, outcome, ret, reqs, pre,
                   histVars>>

\* Lines 255-256 and 339-340: one worker per page of range(pages), started
\* in the order of the pages.
Launch(at, next, kind) ==
    /\ pc = at
    /\ threads' = [p \in 1..n |-> Worker(kind, p)]
    /\ pc' = next
    /\ UNCHANGED <<sessVars, cacheVars, serverVars, op, loopVars, outcome, ret, reqs, pre,
                   histVars>>

\* A join loop that stops after the first thread.
join_first_only == IF threads = <<>> THEN 0 ELSE 1

\* Lines 257-258 and 341-342: the threads the loop joins.
join_last == Len(threads)

\* The join loop has passed threads 1..k: each has finished without failure.
Joined(k) == \A w \in 1..k : threads[w].st = "done"

\* join on a worker that has failed.
JoinRaises(w) == w.st = "failed"

\* The join loop reaches a failed worker, whose failure is raised in the caller.
Join(at) ==
    /\ pc = at
    /\ \E j \in 1..join_last :
           /\ Joined(j - 1)
           /\ JoinRaises(threads[j])
           /\ Raise(threads[j].err)
    /\ UNCHANGED <<sessVars, cacheVars, serverVars, op, use_threading, reqs, pre,
                   histVars, threads>>

\* A worker that reads the entries of its page from the last to the first.
WorkerEntries_reversed(w) ==
    LET page == IF w.kind = "subscriptions" THEN subListing[w.page] ELSE bmListing[w.page]
    IN  [k \in 1..Len(page) |-> page[Len(page) + 1 - k]]

\* The page a worker fetched.
WorkerEntries(w) ==
    IF w.kind = "subscriptions" THEN subListing[w.page] ELSE bmListing[w.page]

WorkerUrl(w) ==
    IF w.kind = "subscriptions" THEN SubscriptionsUrl(username, w.page)
    ELSE BookmarksUrl(username, w.page)

\* The worker after it is done with entry k.
Advance(w) ==
    IF w.k >= Len(WorkerEntries(w)) THEN [w EXCEPT !.st = "done"]
    ELSE [w EXCEPT !.st = "run", !.k = w.k + 1]

\* Lines 262-265 and 346-349 in a worker: the fetch of its page.
worker_fetch(w, r) ==
    /\ threads[w].st = "fetch"
    /\ LET fetched == [threads[w] EXCEPT
                           !.req = Some(request_log(WorkerUrl(threads[w]), r))]
       IN  threads' = [threads EXCEPT ![w] =
               IF PageError(r) # "none"
               THEN [fetched EXCEPT !.st = "failed", !.err = PageError(r)]
               ELSE Advance(fetched)]
    /\ UNCHANGED <<sessVars, cacheVars, serverVars, pc, op, loopVars, outcome, ret, reqs,
                   pre, histVars>>

\* Lines 266-297 in a worker, for its next <dt>: the append is one step.
load_subscriptions_entry(w) ==
    /\ threads[w].st = "run" /\ threads[w].kind = "subscriptions"
    /\ LET loc == SubLinks(SubLocals0, WorkerEntries(threads[w])[threads[w].k])
       IN  IF loc.error # "none"
           THEN /\ threads' = [threads EXCEPT ![w] = [@ EXCEPT !.st = "failed",
                                                                !.err = loc.error]]
                /\ UNCHANGED _subscriptions
           ELSE /\ _subscriptions' = Some(SubAppend(Val(_subscriptions), SubRef(loc)))
                /\ threads' = [threads EXCEPT ![w] = Advance(@)]
    /\ UNCHANGED <<sessVars, _bookmarks, _subscription_pages, _bookmark_pages, bookmarks,
                   serverVars, pc, op, loopVars, outcome, ret, reqs, pre, histVars>>

\* Lines 350-362 in a worker, for its next <li>: the reference is built and
\* looked up in the list.
load_bookmarks_check(w) ==
    /\ threads[w].st = "run" /\ threads[w].kind = "bookmarks"
    /\ LET l2 == BmEntry(threads[w].loc, WorkerEntries(threads[w])[threads[w].k])
       IN  threads' = [threads EXCEPT ![w] =
               IF ~l2.bound THEN [@ EXCEPT !.st = "failed", !.err = "UnboundLocalError"]
               ELSE IF BmAppends(BmRef(l2), Val(_bookmarks))
                    THEN [@ EXCEPT !.st = "append", !.loc = l2]
                    ELSE Advance([@ EXCEPT !.loc = l2])]
    /\ UNCHANGED <<sessVars, cacheVars, serverVars, pc, op, loopVars, outcome, ret, reqs,
                   pre, histVars>>

\* Line 363 in a worker.
load_bookmarks_append(w) ==
    /\ threads[w].st = "append"
    /\ _bookmarks' = Some(Append(Val(_bookmarks), BmRef(threads[w].loc)))
    /\ threads' = [threads EXCEPT ![w] = Advance(@)]
    /\ UNCHANGED <<sessVars, _subscriptions, _subscription_pages, _bookmark_pages, bookmarks,
                   serverVars, pc, op, loopVars, outcome, ret, reqs, pre, histVars>>

\* load_subscriptions_threaded, lines 255-258.
launch_subscriptions == Launch("sub_launch", "sub_join", "subscriptions")
join_subscriptions == Join("sub_join")

\* The return of load_subscriptions_threaded and, in get_subscriptions,
\* line 244.
load_subscriptions_threaded_return ==
    /\ pc = "sub_join" /\ Joined(join_last)
    /\ IF op = "get_subscriptions"
       THEN /\ Return(_subscriptions)
            /\ first' = IF IsNone(first.subscriptions)
                        THEN [first EXCEPT !.subscriptions = _subscriptions] ELSE first
       ELSE Return(NoneVal) /\ UNCHANGED first
    /\ UNCHANGED <<sessVars, cacheVars, serverVars, op, use_threading, reqs, pre,
                   prior, resolved, threads>>

(***************************************************************************)
(* Bookmarks: get_bookmarks, _bookmark_pages, load_bookmarks_threaded.     *)
(***************************************************************************)
\* get_bookmarks, lines 321-325 and 328, with lines 337-338.
get_bookmarks(t) ==
    /\ CanCall /\ is_authed
    /\ op' = "get_bookmarks"
    /\ use_threading' = t
    /\ reqs' = <<>>
    /\ Begin
    /\ IF ~IsNone(_bookmarks)
       THEN /\ Return(_bookmarks)
            /\ first' = IF IsNone(first.bookmarks)
                        THEN [first EXCEPT !.bookmarks = _bookmarks] ELSE first
            /\ UNCHANGED _bookmarks
       ELSE /\ _bookmarks' = Some(<<>>)
            /\ pc' = "bm_count"
            /\ UNCHANGED <<outcome, ret, n, i, first>>
    /\ UNCHANGED <<sessVars, _subscriptions, _subscription_pages, _bookmark_pages, bookmarks,
                   serverVars, resolved>>

\* load_bookmarks_threaded called by the client, lines 337-338.
load_bookmarks_threaded ==
    /\ CanCall /\ is_authed
    /\ op' = "load_bookmarks_threaded"
    /\ use_threading' = TRUE
    /\ reqs' = <<>>
    /\ Begin
    /\ _bookmarks' = Some(<<>>)
    /\ pc' = "bm_count"
    /\ first' = [first EXCEPT !.bm_reload = @ \/ ~IsNone(first.bookmarks)]
    /\ UNCHANGED <<sessVars, _subscriptions, _subscription_pages, _bookmark_pages, bookmarks,
                   serverVars, outcome, ret, n, i, resolved>>

\* The value cached_property stores for _bookmark_pages (line 299).
bm_pages_stored(v) == Some(v)

\* self._bookmark_pages in range(...), lines 299-311, 326 and 339.
bookmark_pages(r) ==
    /\ pc = "bm_count"
    /\ IF ~IsNone(_bookmark_pages)
       THEN /\ n' = Val(_bookmark_pages)
            /\ i' = 1
            /\ pc' = IF use_threading THEN "bm_launch" ELSE "bm_pages"
            /\ UNCHANGED <<_bookmark_pages, reqs, outcome, ret, resolved>>
       ELSE /\ reqs' = Append(reqs, request_log(BookmarksUrl(username, 1), r))
            /\ IF get_raises(r)
               THEN Raise("HTTPError") /\ UNCHANGED <<_bookmark_pages, resolved>>
               ELSE /\ n' = PageCount(r.body)
                    /\ _bookmark_pages' = bm_pages_stored(PageCount(r.body))
                    /\ resolved' = [resolved EXCEPT !.bookmarks = Bump(@)]
                    /\ i' = 1
                    /\ pc' = IF use_threading THEN "bm_launch" ELSE "bm_pages"
                    /\ UNCHANGED <<outcome, ret>>
    /\ UNCHANGED <<sessVars, _subscriptions, _bookmarks, _subscription_pages, bookmarks,
                   serverVars, op, use_threading, pre, prior, first, threads>>

\* One iteration of the loop of lines 326-327: _load_bookmarks(page=i).
load_bookmarks_page(r) ==
    /\ pc = "bm_pages" /\ i <= n
    /\ reqs' = Append(reqs, request_log(BookmarksUrl(username, i), r))
    /\ IF PageError(r) # "none"
       THEN Raise(PageError(r)) /\ UNCHANGED _bookmarks
       ELSE LET res == BmPageLoad(Val(_bookmarks), BmLocals0, Val(r.body.container))
            IN  /\ _bookmarks' = Some(res.list)
                /\ IF res.error # "none"
                   THEN Raise(res.error)
                   ELSE i' = i + 1 /\ UNCHANGED <<pc, outcome, ret, n>>
    /\ UNCHANGED <<sessVars, _subscriptions, _subscription_pages, _bookmark_pages, bookmarks,
                   serverVars, op, use_threading, pre, histVars, threads>>

\* Line 328 after the loop.
get_bookmarks_return ==
    /\ pc = "bm_pages" /\ i > n
    /\ Return(_bookmarks)
    /\ first' = IF IsNone(first.bookmarks)
                THEN [first EXCEPT !.bookmarks = _bookmarks] ELSE first
    /\ UNCHANGED <<sessVars, cacheVars, serverVars, op, use_threading, reqs, pre,
                   prior, resolved, threads>>

\* load_bookmarks_threaded, lines 339-342.
launch_bookmarks == Launch("bm_launch", "bm_join", "bookmarks")
join_bookmarks == Join("bm_join")

load_bookmarks_threaded_return ==
    /\ pc = "bm_join" /\ Joined(join_last)
    /\ IF op = "get_bookmarks"
       THEN /\ Return(_bookmarks)
            /\ first' = IF IsNone(first.bookmarks)
                        THEN [first EXCEPT !.bookmarks = _bookmarks] ELSE first
       ELSE Return(NoneVal) /\ UNCHANGED first
    /\ UNCHANGED <<sessVars, cacheVars, serverVars, op, use_threading, reqs, pre,
                   prior, resolved, threads>>

\* The bookmarks property, lines 365-380: the number of the heading, read
\* once and cached; a page without the heading is an AttributeError.
bookmarks_total(r) ==
    /\ CanCall /\ is_authed
    /\ op' = "bookmarks"
    /\ ret' = NoneVal
    /\ Begin
    /\ IF ~IsNone(bookmarks)
       THEN reqs' = <<>> /\ outcome' = "ok" /\ UNCHANGED bookmarks
       ELSE /\ reqs' = <<request_log(BookmarksUrl(username, 1), r)>>
            /\ IF get_raises(r)
               THEN outcome' = "HTTPError" /\ UNCHANGED bookmarks
               ELSE IF IsNone(r.body.total)
                    THEN outcome' = "AttributeError" /\ UNCHANGED bookmarks
                    ELSE outcome' = "ok" /\ bookmarks' = r.body.total
    /\ UNCHANGED <<sessVars, _subscriptions, _bookmarks, _subscription_pages,
                   _bookmark_pages, serverVars, pc, loopVars, first, resolved>>

(***************************************************************************)
(* The specification.                                                      *)
(***************************************************************************)
AnyResponses == Responses(PostStatuses, {ErrorPage})
TokenResponses == Responses(GetStatuses, TokenBodies)
SubResponses(p) == Responses(GetStatuses, ListingBodies(subListing, p))
BmResponses(p) == Responses(GetStatuses, ListingBodies(bmListing, p))

\* The session: construction, transport calls, token refresh, disposal.
Next ==
    \/ GuestSession
    \/ \E u \in Users, r1 \in TokenResponses, r2 \in AnyResponses : Login(u, r1, r2)
    \/ Discard
    \/ \E r \in Responses(GetStatuses, {ErrorPage}) : get(WorkUrl, r)
    \/ \E r \in Responses(GetStatuses, {ErrorPage}) : request(WorkUrl, r)
    \/ \E r \in AnyResponses : post(WorkUrl, r)
    \/ \E r \in TokenResponses : refresh_auth_token(r)
    \/ \E r \in Responses(GetStatuses, {ErrorPage}) : search(r)

Spec == Init /\ [][Next]_vars

\* The state a successful Session("alice", password) leaves, for the
\* listings the site has.
LoggedIn(subs, bms) ==
    /\ held = TRUE
    /\ is_authed = TRUE /\ username = "alice" /\ authenticity_token = Some("tokA")
    /\ session = Some(2) /\ handles = <<"open", "open">>
    /\ _subscriptions = NoneVal /\ _bookmarks = NoneVal
    /\ _subscription_pages = NoneVal /\ _bookmark_pages = NoneVal /\ bookmarks = NoneVal
    /\ subListing \in subs
    /\ bmListing \in bms
    /\ pc = "idle" /\ op = "Session" /\ use_threading = FALSE /\ n = 0 /\ i = 0
    /\ outcome = "ok" /\ ret = NoneVal
    /\ reqs = <<Req("get", LoginUrl, "session", Response(200, TokenPage("tokA")), TRUE),
                LoginPost("alice", Some("tokA"), Response(Found, ErrorPage))>>
    /\ pre = EmptyCache
    /\ prior = NoHistory /\ first = NoHistory /\ resolved = NoneResolved
    /\ threads = <<>>

\* The steps of the page workers.
WorkerResponses(w) ==
    IF w.kind = "subscriptions" THEN SubResponses(w.page) ELSE BmResponses(w.page)

WorkerStep ==
    \/ \E w \in 1..Len(threads) : \E r \in WorkerResponses(threads[w]) : worker_fetch(w, r)
    \/ \E w \in 1..Len(threads) : load_subscriptions_entry(w)
    \/ \E w \in 1..Len(threads) : load_bookmarks_check(w)
    \/ \E w \in 1..Len(threads) : load_bookmarks_append(w)

(***************************************************************************)
(* Sequential aggregation: a logged-in session whose client uses both      *)
(* listings, the cached bookmark total and clear_cache, without threads.   *)
(***************************************************************************)
InitSequential == LoggedIn(SubListings, BmListings)

NextSequential ==
    \/ clear_cache
    \/ get_subscriptions(FALSE)
    \/ \E r \in SubResponses(1) : subscription_pages(r)
    \/ \E r \in SubResponses(i) : load_subscriptions_page(r)
    \/ get_subscriptions_return
    \/ get_bookmarks(FALSE)
    \/ \E r \in BmResponses(1) : bookmark_pages(r)
    \/ \E r \in BmResponses(i) : load_bookmarks_page(r)
    \/ get_bookmarks_return
    \/ \E r \in BmResponses(1) : bookmarks_total(r)

SpecSequential == InitSequential /\ [][NextSequential]_vars

(***************************************************************************)
(* Both modes: a logged-in session whose client works with one of the two  *)
(* listings (the other is the empty sequence and is never asked for), in   *)
(* sequential and in threaded mode, with clear_cache.                      *)
(***************************************************************************)
NoListing == <<>>

InitListings == LoggedIn(SubListings, {NoListing}) \/ LoggedIn({NoListing}, BmListings)

SubscriptionCalls ==
    \/ \E t \in BOOLEAN : get_subscriptions(t)
    \/ load_subscriptions_threaded
    \/ \E r \in SubResponses(1) : subscription_pages(r)
    \/ \E r \in SubResponses(i) : load_subscriptions_page(r)
    \/ get_subscriptions_return
    \/ launch_subscriptions
    \/ join_subscriptions
    \/ load_subscriptions_threaded_return

BookmarkCalls ==
    \/ \E t \in BOOLEAN : get_bookmarks(t)
    \/ load_bookmarks_threaded
    \/ \E r \in BmResponses(1) : bookmark_pages(r)
    \/ \E r \in BmResponses(i) : load_bookmarks_page(r)
    \/ get_bookmarks_return
    \/ launch_bookmarks
    \/ join_bookmarks
    \/ load_bookmarks_threaded_return

NextListings ==
    \/ clear_cache
    \/ subListing # NoListing /\ SubscriptionCalls
    \/ bmListing # NoListing /\ BookmarkCalls
    \/ WorkerStep

SpecListings == InitListings /\ [][NextListings]_vars

(***************************************************************************)
(* Properties of the session (specification Spec).                         *)
(***************************************************************************)
\* The login POST of the last Session(...) call, when one was sent.
LoginPostSent == op = "Session" /\ Len(reqs) = 2
LoginPostStatus == reqs[2].status

\* C2, as stated: login succeeds exactly when the login POST, sent with
\* redirects disabled, returns 302; a successful login leaves an
\* authenticated session with a token; every other status of the POST ends
\* in LoginError and leaves the client without a session.
C2_LoginOnly302 ==
    op = "Session" =>
        /\ (outcome = "ok") <=> (LoginPostSent /\ LoginPostStatus = Found)
        /\ LoginPostSent => ~reqs[2].allow_redirects
        /\ outcome = "ok" => held /\ is_authed /\ ~IsNone(authenticity_token)
        /\ (LoginPostSent /\ LoginPostStatus # Found) => (outcome = "LoginError" /\ ~held)

\* C2, amended: as above, but a 429 on the login POST ends in the
\* rate-limit error (HTTPError) and only the remaining statuses in
\* LoginError; either way the client is left without a session.
C2_LoginOnly302Or429 ==
    op = "Session" =>
        /\ (outcome = "ok") <=> (LoginPostSent /\ LoginPostStatus = Found)
        /\ LoginPostSent => ~reqs[2].allow_redirects
        /\ outcome = "ok" => held /\ is_authed /\ ~IsNone(authenticity_token)
        /\ (LoginPostSent /\ LoginPostStatus = RateLimited)
               => (outcome = "HTTPError" /\ ~held)
        /\ (LoginPostSent /\ LoginPostStatus \notin {Found, RateLimited})
               => (outcome = "LoginError" /\ ~held)

\* A login as bob that the site rejected with a re-rendered page (200).
C2_Witness ==
    /\ LoginPostSent /\ LoginPostStatus = 200
    /\ outcome = "LoginError" /\ ~held /\ username = "bob"

\* C7: a transport call (get, request, post, refresh_auth_token, search)
\* sends one request; in every call a request answered 429 is the last one
\* the call sends, its body is not parsed, and the call ends in the
\* rate-limit error (HTTPError).
TransportOps == {"get", "request", "post", "refresh_auth_token", "search"}

C7_RateLimitSurfaced ==
    /\ op \in TransportOps => Len(reqs) = 1
    /\ \A j \in 1..Len(reqs) :
           reqs[j].status = RateLimited
               => (j = Len(reqs) /\ ~reqs[j].parsed /\ outcome = "HTTPError")

\* request(url) was answered 429.
C7_Witness ==
    /\ op = "request" /\ Len(reqs) = 1 /\ reqs[1].status = RateLimited
    /\ outcome = "HTTPError"

\* C8: refresh_auth_token fetches the profile URL of the session's user
\* when the session is authenticated and the landing URL when it is a
\* guest session; when the page is delivered (not a 429) with a token
\* field, the session's token becomes its value, and without one the call
\* ends in UnexpectedResponseError.
C8_RefreshTarget ==
    op = "refresh_auth_token" =>
        /\ Len(reqs) = 1
        /\ is_authed => (reqs[1].url.path = "profile" /\ reqs[1].url.user = username)
        /\ ~is_authed => reqs[1].url = LandingUrl
        /\ (reqs[1].status # RateLimited /\ ~IsNone(reqs[1].token))
               => (outcome = "ok" /\ authenticity_token = reqs[1].token)
        /\ (reqs[1].status # RateLimited /\ IsNone(reqs[1].token))
               => outcome = "UnexpectedResponseError"

\* bob's authenticated session has refreshed its token from the profile page.
C8_Witness ==
    /\ op = "refresh_auth_token" /\ is_authed /\ username = "bob"
    /\ outcome = "ok" /\ authenticity_token = Some("tokB")
    /\ reqs[1].url = ProfileUrl("bob")

\* C9, as stated: a login page delivered without a token field ends the
\* login in UnexpectedResponseError, and no login POST is sent.
C9_LoginNoToken ==
    (op = "Session" /\ reqs[1].status # RateLimited /\ IsNone(reqs[1].token))
        => (outcome = "UnexpectedResponseError" /\ Len(reqs) = 1)

\* C19, as stated: a session creates one transport handle, and once the
\* session is discarded (or its constructor has failed and the object is
\* gone) every handle created for it has been released.
C19_HandlesReleased ==
    /\ held => Len(handles) = 1
    /\ (~held /\ op \in {"del", "Session"}) =>
           \A h \in 1..Len(handles) : handles[h] = "closed"

(***************************************************************************)
(* Properties of sequential aggregation (specification SpecSequential).    *)
(***************************************************************************)
\* The references of the entries of a listing, in listing order, as the
\* page loaders build them.
RECURSIVE BmPageRefs(_, _)
BmPageRefs(loc, entries) ==
    IF entries = <<>> THEN <<>>
    ELSE LET l2 == BmEntry(loc, Head(entries))
         IN  <<BmRef(l2)>> \o BmPageRefs(l2, Tail(entries))

RECURSIVE BmListingRefs(_)
BmListingRefs(l) ==
    IF l = <<>> THEN <<>> ELSE BmPageRefs(BmLocals0, Head(l)) \o BmListingRefs(Tail(l))

SubPageRefs(entries) == [k \in 1..Len(entries) |-> SubRef(SubLinks(SubLocals0, entries[k]))]

RECURSIVE SubListingRefs(_)
SubListingRefs(l) ==
    IF l = <<>> THEN <<>> ELSE SubPageRefs(Head(l)) \o SubListingRefs(Tail(l))

\* The entries of a sequence of references that repeat an earlier one.
Repeats(refs) ==
    Cardinality({k \in 1..Len(refs) : \E j \in 1..(k - 1) : RefEq(refs[j], refs[k])})

\* The number of elements of a list equal to a reference.
Count(list, x) == Cardinality({k \in 1..Len(list) : RefEq(list[k], x)})

\* The last call has ended and one of its fetches was answered 429.
Got429 == pc = "idle" /\ \E j \in 1..Len(reqs) : reqs[j].status = RateLimited

\* A sequential get_subscriptions / get_bookmarks that started on an empty
\* cache has returned normally.
SeqSubscriptionsDone ==
    /\ pc = "idle" /\ op = "get_subscriptions" /\ ~use_threading /\ outcome = "ok"
    /\ IsNone(pre._subscriptions) /\ IsNone(pre._subscription_pages)

SeqBookmarksDone ==
    /\ pc = "idle" /\ op = "get_bookmarks" /\ ~use_threading /\ outcome = "ok"
    /\ IsNone(pre._bookmarks) /\ IsNone(pre._bookmark_pages)

\* The fetches of a call after its page-count fetch are those of pages
\* 1..count of the listing at url(username, page).
PageFetches(count, url(_, _)) ==
    /\ Len(reqs) = 1 + count
    /\ \A k \in 1..count : reqs[1 + k].url = url(username, k)

\* C1, as stated: when a fetch of an operation is answered 429, the
\* operation ends in the rate-limit error and the aggregate/cache state
\* (both lists, both page counts, the bookmark total) is what it was
\* before the call.
C1_RateLimitKeepsCache == Got429 => (outcome = "HTTPError" /\ CacheState = pre)

\* C3: right after clear_cache all five memoized values are absent,
\* whatever was populated before; an access that starts on the cleared
\* cache fetches again: get_subscriptions / get_bookmarks issue the
\* page-count fetch and, when they return, one fetch for every page, and
\* the bookmarks count issues its fetch.
C3_ClearThenRefetch ==
    /\ op = "clear_cache" => CacheState = EmptyCache
    /\ (pc = "idle" /\ pre = EmptyCache /\ op = "get_subscriptions") =>
           /\ Len(reqs) >= 1 /\ reqs[1].url = SubscriptionsUrl(username, 1)
           /\ outcome = "ok" => PageFetches(Val(_subscription_pages), SubscriptionsUrl)
    /\ (pc = "idle" /\ pre = EmptyCache /\ op = "get_bookmarks") =>
           /\ Len(reqs) >= 1 /\ reqs[1].url = BookmarksUrl(username, 1)
           /\ outcome = "ok" => PageFetches(Val(_bookmark_pages), BookmarksUrl)
    /\ (pc = "idle" /\ pre = EmptyCache /\ op = "bookmarks") =>
           (Len(reqs) = 1 /\ reqs[1].url = BookmarksUrl(username, 1))

\* clear_cache has run on a cache whose five values were all populated.
C3_Witness ==
    /\ op = "clear_cache"
    /\ ~IsNone(pre._subscriptions) /\ ~IsNone(pre._bookmarks)
    /\ ~IsNone(pre._subscription_pages) /\ ~IsNone(pre._bookmark_pages)
    /\ ~IsNone(pre.bookmarks)

\* C4: for a listing of N pages whose page count was read as N, a
\* sequential get_subscriptions / get_bookmarks on an empty cache issues,
\* after the page-count fetch, exactly the N fetches of pages 1..N, and the
\* size of the aggregate is the sum of the entry counts of the pages, for
\* bookmarks less the entries that repeat an earlier one.
C4_SequentialPages ==
    /\ (SeqSubscriptionsDone /\ Val(_subscription_pages) = Len(subListing)) =>
           /\ PageFetches(Len(subListing), SubscriptionsUrl)
           /\ Len(Val(ret)) = SumLen(subListing)
    /\ (SeqBookmarksDone /\ Val(_bookmark_pages) = Len(bmListing)) =>
           /\ PageFetches(Len(bmListing), BookmarksUrl)
           /\ Len(Val(ret)) = SumLen(bmListing) - Repeats(BmListingRefs(bmListing))

\* Two pages of bookmarks, four entries, two of them repeats.
C4_Witness ==
    /\ SeqBookmarksDone /\ Len(bmListing) = 2 /\ Val(_bookmark_pages) = 2
    /\ SumLen(bmListing) = 4 /\ Len(Val(ret)) = 2

\* The references of page 2 of a listing that page 1 has produced.
Repeated(refs1, refs2) ==
    {refs2[k] : k \in {j \in 1..Len(refs2) : InList(refs2[j], refs1)}}

\* C5: in a sequential aggregation of all the pages of a listing, an entry
\* of page 2 that repeats an entry of page 1 is in the bookmark aggregate
\* exactly once, and in the subscription aggregate as many times as the
\* pages list it (twice for two pages).
C5_RepeatedEntry ==
    /\ (SeqSubscriptionsDone /\ Val(_subscription_pages) = Len(subListing)
            /\ Len(subListing) >= 2) =>
           \A x \in Repeated(SubPageRefs(subListing[1]), SubPageRefs(subListing[2])) :
               /\ Count(Val(ret), x) = Count(SubListingRefs(subListing), x)
               /\ Count(Val(ret), x) >= 2
               /\ Len(subListing) = 2 => Count(Val(ret), x) = 2
    /\ (SeqBookmarksDone /\ Val(_bookmark_pages) = Len(bmListing)
            /\ Len(bmListing) >= 2) =>
           \A x \in Repeated(BmPageRefs(BmLocals0, bmListing[1]),
                             BmPageRefs(BmLocals0, bmListing[2])) :
               Count(Val(ret), x) = 1

\* Both aggregates have been built from two pages with a repeated entry:
\* the subscriptions hold it twice, the bookmarks once.
C5_Witness ==
    /\ SeqBookmarksDone /\ Len(bmListing) = 2 /\ Val(_bookmark_pages) = 2
    /\ Repeated(BmPageRefs(BmLocals0, bmListing[1]),
                BmPageRefs(BmLocals0, bmListing[2])) # {}
    /\ Len(subListing) = 2 /\ ~IsNone(_subscriptions)
    /\ \E x \in Repeated(SubPageRefs(subListing[1]), SubPageRefs(subListing[2])) :
           Count(Val(_subscriptions), x) = 2

\* C15: a sequential get_subscriptions that loads a listing of N pages
\* fetches pages 1, 2, ..., N in this order, also while it is under way,
\* and returns the entries of page 1 in document order, then those of page
\* 2, ..., then those of page N.
C15_SequentialOrder ==
    /\ (SeqSubscriptionsDone /\ Val(_subscription_pages) = Len(subListing)) =>
           /\ Val(ret) = SubListingRefs(subListing)
           /\ \A k \in 1..Len(subListing) :
                  reqs[1 + k].url = SubscriptionsUrl(username, k)
    /\ (pc = "sub_pages" /\ ~use_threading /\ IsNone(pre._subscription_pages)) =>
           /\ Len(reqs) = i
           /\ \A k \in 1..(i - 1) : reqs[1 + k].url.page = k
           /\ Val(_subscriptions) = SubListingRefs(SubSeq(subListing, 1, i - 1))

\* Two pages were fetched, page 1 before page 2, and the three entries are
\* returned in listing order.
C15_Witness ==
    /\ SeqSubscriptionsDone /\ Len(subListing) = 2 /\ Len(reqs) = 3
    /\ reqs[2].url.page = 1 /\ reqs[3].url.page = 2
    /\ Val(ret) = SubPageRefs(subListing[1]) \o SubPageRefs(subListing[2])
    /\ Len(Val(ret)) = 3

\* A cached list is absent, or the page count is resolved and the list
\* holds the entries of all the pages counted.
SubscriptionsComplete ==
    \/ IsNone(_subscriptions)
    \/ /\ ~IsNone(_subscription_pages)
       /\ Val(_subscriptions) =
              SubListingRefs(SubSeq(subListing, 1, Val(_subscription_pages)))

BookmarksComplete ==
    \/ IsNone(_bookmarks)
    \/ /\ ~IsNone(_bookmark_pages)
       /\ LET refs == BmListingRefs(SubSeq(bmListing, 1, Val(_bookmark_pages)))
          IN  Len(Val(_bookmarks)) = Len(refs) - Repeats(refs)

\* C18, as stated: whenever no aggregation call is under way, each cached
\* list is absent or complete, so a get_subscriptions / get_bookmarks that
\* returns normally returns a complete aggregate, never the empty or
\* partial list an earlier failed call left behind.
C18_CacheComplete ==
    pc = "idle" =>
        /\ SubscriptionsComplete /\ BookmarksComplete
        /\ (op = "get_subscriptions" /\ outcome = "ok") =>
               (ret = _subscriptions /\ ~IsNone(ret))
        /\ (op = "get_bookmarks" /\ outcome = "ok") => (ret = _bookmarks /\ ~IsNone(ret))

(***************************************************************************)
(* Properties of both modes (specification SpecListings).                  *)
(***************************************************************************)
ThreadedOps ==
    {"get_subscriptions", "get_bookmarks", "load_subscriptions_threaded",
     "load_bookmarks_threaded"}

SomeWorkerFailed == \E w \in 1..Len(threads) : threads[w].st = "failed"

RepeatSubscriptions ==
    pc = "idle" /\ op = "get_subscriptions" /\ outcome = "ok" /\ ~IsNone(prior.subscriptions)

RepeatBookmarks ==
    pc = "idle" /\ op = "get_bookmarks" /\ outcome = "ok" /\ ~IsNone(prior.bookmarks)

OneWorkerPerPage(count, url(_, _)) ==
    /\ Len(threads) = count
    /\ \A p \in 1..count :
           /\ threads[p].page = p /\ threads[p].st = "done"
           /\ ~IsNone(threads[p].req) /\ Val(threads[p].req).url = url(username, p)

\* C12: a get_subscriptions / get_bookmarks with use_threading set that
\* loads the listing has, when it returns, launched one worker for each
\* page 1..N, each has fetched its own page and every one has finished;
\* while the workers are joined there is one worker per page; a call with
\* use_threading unset has no worker at any time.
C12_OneWorkerPerPageJoined ==
    /\ (pc = "idle" /\ op = "get_subscriptions" /\ use_threading /\ outcome = "ok"
            /\ IsNone(pre._subscriptions)) =>
           OneWorkerPerPage(Val(_subscription_pages), SubscriptionsUrl)
    /\ (pc = "idle" /\ op = "get_bookmarks" /\ use_threading /\ outcome = "ok"
            /\ IsNone(pre._bookmarks)) =>
           OneWorkerPerPage(Val(_bookmark_pages), BookmarksUrl)
    /\ pc \in {"sub_join", "bm_join"} =>
           (Len(threads) = n /\ \A p \in 1..n : threads[p].page = p)
    /\ (op \in {"get_subscriptions", "get_bookmarks"} /\ ~use_threading) => threads = <<>>

\* A threaded get_bookmarks has returned the aggregate of two pages, both
\* workers finished.
C12_Witness ==
    /\ pc = "idle" /\ op = "get_bookmarks" /\ use_threading /\ outcome = "ok"
    /\ IsNone(pre._bookmarks) /\ Len(threads) = 2
    /\ threads[1].st = "done" /\ threads[2].st = "done" /\ ret = _bookmarks

\* A list is a merge of the sequences seqs[1], ..., seqs[N]: it holds the
\* elements of all of them, those of each sequence in their order.
RECURSIVE IsMerge(_, _)
IsMerge(list, seqs) ==
    IF list = <<>> THEN \A p \in DOMAIN seqs : seqs[p] = <<>>
    ELSE \E p \in DOMAIN seqs :
             /\ seqs[p] # <<>>
             /\ Head(seqs[p]) = Head(list)
             /\ IsMerge(Tail(list), [seqs EXCEPT ![p] = Tail(@)])

\* The references of each page of the subscription listing.
SubRefsByPage == [p \in 1..Len(subListing) |-> SubPageRefs(subListing[p])]

\* A threaded load of all the pages of the subscription listing has ended
\* normally, every worker finished.
ThreadedSubscriptionsDone ==
    /\ pc = "idle" /\ op \in {"get_subscriptions", "load_subscriptions_threaded"}
    /\ use_threading /\ outcome = "ok"
    /\ Len(threads) = Len(subListing) /\ Len(threads) >= 1

\* C13: after a threaded load in which every page fetch succeeded, the
\* subscription aggregate has as many entries as the pages together, is a
\* permutation of their concatenation, and keeps the entries of each page
\* in their page order, whatever the interleaving of the workers.
C13_NoLostAppend ==
    ThreadedSubscriptionsDone =>
        /\ Len(Val(_subscriptions)) = SumLen(subListing)
        /\ IsMerge(Val(_subscriptions), SubRefsByPage)

\* The worker of page 2 appended its entry before the worker of page 1
\* appended its first: the aggregate starts with the entry of page 2.
C13_Witness ==
    /\ ThreadedSubscriptionsDone /\ Len(subListing) = 2
    /\ Val(_subscriptions) = SubPageRefs(subListing[2]) \o SubPageRefs(subListing[1])

\* No two elements of a list are equal by entity identity.
NoDuplicates(list) ==
    \A j, k \in 1..Len(list) : (j # k) => ~RefEq(list[j], list[k])

\* C14, as stated: when get_bookmarks returns, sequential or threaded, the
\* bookmark aggregate has no two entries equal by entity identity,
\* whatever the interleaving of the workers' membership tests and appends.
C14_NoDuplicateBookmarks ==
    (pc = "idle" /\ op = "get_bookmarks" /\ outcome = "ok") => NoDuplicates(Val(ret))

(***************************************************************************)
(* The client of a logged-in session: sequential aggregation together with *)
(* the transport calls and the token refresh (specification SpecClient).   *)
(***************************************************************************)
NextClient ==
    \/ NextSequential
    \/ \E r \in Responses(GetStatuses, {ErrorPage}) : get(WorkUrl, r)
    \/ \E r \in Responses(GetStatuses, {ErrorPage}) : request(WorkUrl, r)
    \/ \E r \in AnyResponses : post(WorkUrl, r)
    \/ \E r \in TokenResponses : refresh_auth_token(r)

SpecClient == InitSequential /\ [][NextClient]_vars

\* C20: a step of get, request or post, whether the call returns or
\* raises the rate-limit error, leaves the authentication flag, the
\* username, the token and the five cache slots as they were; a
\* refresh_auth_token that fails (429 or no token field) leaves the flag,
\* the username, the slots and the previous token as they were.
C20_TransportFrame ==
    [][/\ op' \in {"get", "request", "post"} =>
              UNCHANGED <<is_authed, username, authenticity_token, cacheVars>>
       /\ (op' = "refresh_auth_token" /\ outcome' # "ok") =>
              UNCHANGED <<is_authed, username, authenticity_token, cacheVars>>
       /\ op' = "refresh_auth_token" => UNCHANGED <<is_authed, username, cacheVars>>]_vars

\* A post on a session with a populated cache was rate limited; the token
\* of the login and the cache are in place.
C20_Witness ==
    /\ op = "post" /\ outcome = "HTTPError" /\ is_authed /\ username = "alice"
    /\ authenticity_token = Some("tokA")
    /\ ~IsNone(_subscriptions) /\ ~IsNone(_subscription_pages) /\ ~IsNone(bookmarks)
    /\ CacheState = pre

(***************************************************************************)
(* Arbitrary markup: a logged-in session in sequential mode against a site *)
(* whose first page may carry any pagination control and whose listing may *)
(* be one entry with any links (specification SpecMarkup).  The client     *)
(* works with one of the two listings.                                     *)
(***************************************************************************)
\* The items of a pagination control: text that is not a number (None) or
\* the digits of a number, 0 included (str.isdigit, line 192).
PageItems == {NoneVal} \cup {Some(k) : k \in 0..MaxPages}

\* The pagination controls of at most MaxItems items, and the absent one.
PaginationControls ==
    {NoneVal} \cup {Some(c) : c \in UNION {[1..len -> PageItems] : len \in 0..MaxItems}}

\* What the page-count fetch may return: the first page of the listing
\* with any pagination control.
CountResponses(l) ==
    Responses(GetStatuses,
              {Body(NoneVal, Some(l[1]), pg, Some(SumLen(l))) : pg \in PaginationControls})

\* The links an entry may hold: a work link, one whose href has no numeric
\* id, author links, a user link, a series link, and a generic link whose
\* trailing segment is not a number.
MarkupLinks ==
    {WorkLink(1, "w1"), Link("none", "works", NoneVal, Some("w0")),
     AuthorLink("ann"), AuthorLink("cat"), UserLink("bob"), SeriesLink(5, "s5"),
     Link("none", "collections", NoneVal, Some("c1"))}

\* The entries of at most MaxLinks links.
MarkupEntries == UNION {[1..len -> MarkupLinks] : len \in 0..MaxLinks}

\* The listings of one page with one entry.
MarkupListings == {<<<<e>>>> : e \in MarkupEntries}

InitMarkup ==
    \/ LoggedIn(SubListings \cup MarkupListings, {NoListing})
    \/ LoggedIn({NoListing}, BmListings \cup MarkupListings)

MarkupSubscriptionCalls ==
    \/ get_subscriptions(FALSE)
    \/ \E r \in CountResponses(subListing) : subscription_pages(r)
    \/ \E r \in SubResponses(i) : load_subscriptions_page(r)
    \/ get_subscriptions_return

MarkupBookmarkCalls ==
    \/ get_bookmarks(FALSE)
    \/ \E r \in CountResponses(bmListing) : bookmark_pages(r)
    \/ \E r \in BmResponses(i) : load_bookmarks_page(r)
    \/ get_bookmarks_return

NextMarkup ==
    \/ clear_cache
    \/ subListing # NoListing /\ MarkupSubscriptionCalls
    \/ bmListing # NoListing /\ MarkupBookmarkCalls

SpecMarkup == InitMarkup /\ [][NextMarkup]_vars

\* C11, as stated: page-count resolution gives 1 for a page without a
\* pagination control, and an integer >= 1 for every pagination control,
\* whatever its items.
C11_PageCountAtLeastOne ==
    /\ \A pg \in PaginationControls :
           IsNone(pg) => PageCount(Body(NoneVal, NoneVal, pg, NoneVal)) = 1
    /\ ~IsNone(_subscription_pages) => Val(_subscription_pages) >= 1
    /\ ~IsNone(_bookmark_pages) => Val(_bookmark_pages) >= 1

\* The link patterns of an entry, as section 4.4 names them.
IsAuthorLink(a) == a.rel = "author"
HasWorkLink(e) == \E k \in 1..Len(e) : e[k].rel = "none" /\ e[k].path = "works"
HasUserLink(e) == \E k \in 1..Len(e) : e[k].rel = "none" /\ e[k].path = "users"
GenericLinks(e) ==
    {k \in 1..Len(e) : e[k].rel = "none" /\ e[k].path \notin {"works", "users"}}

\* The strings of the author links of an entry, in document order.
AuthorsOf(e) ==
    LET links == SelectSeq(e, IsAuthorLink)
    IN  [k \in 1..Len(links) |-> links[k].string]

\* A sequential get_subscriptions has read the one page of a listing of
\* one entry: the page count was 1 and page 1 was delivered with its
\* container.
OneEntryRead ==
    /\ pc = "idle" /\ op = "get_subscriptions" /\ IsNone(pre._subscriptions)
    /\ subListing # NoListing /\ Len(subListing) = 1 /\ Len(subListing[1]) = 1
    /\ _subscription_pages = Some(1)
    /\ Len(reqs) = 2 /\ reqs[2].status = 200 /\ outcome # "AttributeError"

\* C16, as stated: every entry, whatever its links, yields exactly one
\* reference of one kind: a Work with the author links in document order
\* for a work link plus author links; a User for a users link without a
\* work link; a Series with the numeric trailing segment as id and the
\* authors attached for a generic link with neither of the two.
C16_EntryClassification ==
    OneEntryRead =>
        LET e == subListing[1][1]
            list == Val(_subscriptions)
        IN  /\ outcome = "ok" /\ Len(list) = 1
            /\ list[1].kind \in {"Work", "User", "Series"}
            /\ (HasWorkLink(e) /\ ~HasUserLink(e) /\ GenericLinks(e) = {}) =>
                   (list[1].kind = "Work" /\ list[1].authors = AuthorsOf(e))
            /\ (HasUserLink(e) /\ ~HasWorkLink(e)) => list[1].kind = "User"
            /\ (~HasWorkLink(e) /\ ~HasUserLink(e) /\ GenericLinks(e) # {}) =>
                   /\ list[1].kind = "Series" /\ list[1].authors = AuthorsOf(e)
                   /\ \E k \in GenericLinks(e) : ~IsNone(e[k].seg) /\ list[1].id = e[k].seg

\* The identity field of a reference is set: the name of a User, the id of
\* a Work or Series.
IdentitySet(ref) == IF ref.kind = "User" THEN ~IsNone(ref.name) ELSE ~IsNone(ref.id)

AllIdentified(slot) == IsNone(slot) \/ \A k \in 1..Len(Val(slot)) : IdentitySet(Val(slot)[k])

\* C17, as stated: every reference in the subscription or the bookmark
\* aggregate has its identity field set, whatever links its entry held
\* (only author links, no links, a mix of work, user and generic links).
C17_IdentityAlwaysSet == AllIdentified(_subscriptions) /\ AllIdentified(_bookmarks)

====
